---------------------------- MODULE Spec2Model ----------------------------
(***************************************************************************)
(* DatabricksHook (airflow/providers/databricks/hooks/databricks.py):      *)
(* construction of the hook and _do_api_call, the API call with retries.   *)
(* Every read and write of the instance field self.databricks_conn is one  *)
(* step of its own, so that callers running on separate threads interleave *)
(* exactly where the interpreter lets them.                                *)
(***************************************************************************)
EXTENDS Integers, Sequences, FiniteSets, TLC

\* ------------------------------------------------------------- bounds
\* Largest retry_limit handed to the constructor.
MaxRetryLimit == 3

\* ---------------------------------------------------------- constants
\* timeout_seconds: int = 180
DefaultTimeout == 180

\* ------------------------------------------------------------- inputs
\* The threads of the host environment that may call the hook.
Callers == {1, 2}
\* A single caller: calls follow one another, none overlaps another.
SeqCallers == {1}

RetryLimits == -1 .. MaxRetryLimit
RetryDelays == {1, 2}

\* A host string "[https://][user@]name[:port][/path]": whether it starts
\* with a scheme and "//", whether user information precedes the name, the
\* name ("" when there is none) and whether it is written with upper-case
\* letters, whether a port follows it, whether a path follows it.
HostString(scheme, userinfo, name, upper, port, path) ==
    [scheme |-> scheme, userinfo |-> userinfo, name |-> name, upper |-> upper,
     port |-> port, path |-> path]

\* A host string without user information or port, in lower case.
Host(scheme, name, path) == HostString(scheme, FALSE, name, FALSE, FALSE, path)

\* The host strings handed to _parse_host.
Hosts ==
    {HostString(s, u, n, c, po, pa) :
        s \in BOOLEAN, u \in BOOLEAN, n \in {"", "xx"}, c \in BOOLEAN,
        po \in BOOLEAN, pa \in BOOLEAN}

\* Connections the provider may hold.  extra_dejson is a mapping whose keys
\* may or may not include "token" and "host".
ConnTokenHost ==
    [host |-> Host(FALSE, "d1", FALSE), login |-> "u1", password |-> "p1",
     extra_dejson |-> [token |-> "t1", host |-> Host(TRUE, "x1", TRUE)]]
ConnToken ==
    [host |-> Host(TRUE, "d2", FALSE), login |-> "u2", password |-> "p2",
     extra_dejson |-> [token |-> "t2"]]
ConnBasic ==
    [host |-> Host(FALSE, "d3", FALSE), login |-> "u3", password |-> "p3",
     extra_dejson |-> [host |-> Host(TRUE, "x3", FALSE)]]
Connections == {ConnTokenHost, ConnToken, ConnBasic}
ConcConnections == {ConnTokenHost, ConnBasic}

\* self.databricks_conn = None
NoConn ==
    [host |-> Host(FALSE, "None", FALSE), login |-> "None", password |-> "None",
     extra_dejson |-> [none |-> TRUE]]

\* Endpoints (method, path): those of the module and one whose method the
\* executor does not support.
RUN_NOW_ENDPOINT == <<"POST", "api/2.0/jobs/run-now">>
GET_RUN_ENDPOINT == <<"GET", "api/2.0/jobs/runs/get">>
SUBMIT_RUN_ENDPOINT == <<"POST", "api/2.0/jobs/runs/submit">>
CANCEL_RUN_ENDPOINT == <<"POST", "api/2.0/jobs/runs/cancel">>
RESTART_CLUSTER_ENDPOINT == <<"POST", "api/2.0/clusters/restart">>
START_CLUSTER_ENDPOINT == <<"POST", "api/2.0/clusters/start">>
TERMINATE_CLUSTER_ENDPOINT == <<"POST", "api/2.0/clusters/delete">>
INSTALL_LIBS_ENDPOINT == <<"POST", "api/2.0/libraries/install">>
UNINSTALL_LIBS_ENDPOINT == <<"POST", "api/2.0/libraries/uninstall">>
PatchEndpoint == <<"PATCH", "api/2.0/jobs/update">>
DeleteEndpoint == <<"DELETE", "api/2.0/jobs/delete">>
EndpointInfos == {RUN_NOW_ENDPOINT, GET_RUN_ENDPOINT, PatchEndpoint, DeleteEndpoint}
ConcEndpointInfos == {GET_RUN_ENDPOINT, DeleteEndpoint}

Payloads == {"run_id_1"}
USER_AGENT_HEADER == "airflow-version"

\* ---------------------------------------------------------- transport
\* What one request_func(...) call can do: return a response, or raise a
\* requests exception, which may or may not carry a response.  An absent
\* response (None) is the empty sequence.
Response(status, n, decodable) ==
    [status_code |-> status, content |-> [id |-> n, decodable |-> decodable]]

Returned(r) == [exc |-> "none", response |-> <<r>>]
Raised(cls, resp) == [exc |-> cls, response |-> resp]

\* n identifies the request the outcome answers.
TransportOutcomes(n) ==
    {Returned(Response(200, n, TRUE)), Returned(Response(200, n, FALSE)),
     Returned(Response(304, n, TRUE)),
     Returned(Response(404, n, TRUE)), Returned(Response(499, n, TRUE)),
     Returned(Response(500, n, TRUE)),
     Raised("ConnectionError", <<>>), Raised("Timeout", <<>>),
     Raised("ConnectionError", <<Response(400, n, TRUE)>>),
     Raised("TooManyRedirects", <<Response(302, n, TRUE)>>),
     Raised("InvalidURL", <<>>)}
ConcTransportOutcomes(n) ==
    {Returned(Response(200, n, TRUE)), Returned(Response(500, n, TRUE))}

\* response.json() on a body that is no JSON raises ValueError in the older
\* requests releases and requests.exceptions.JSONDecodeError, a
\* RequestException without a response, in the newer ones.
JsonErrors == {"ValueError", "JSONDecodeError"}

\* ------------------------------------------------------ pure functions
\* urlparse(host).hostname: the name of the network location, in lower case,
\* without user information and port; None when the string has no "//"
\* (no network location) or the location has no name.
urlparse_hostname(host) ==
    IF host.scheme /\ host.name # "" THEN <<Host(FALSE, host.name, FALSE)>> ELSE <<>>

\* A normalization that strips the scheme alone.
ParseHostStripScheme(host) == [host EXCEPT !.scheme = FALSE]

\* DatabricksHook._parse_host: urlparse(host).hostname when there is one,
\* the host itself otherwise.
_parse_host(host) ==
    IF urlparse_hostname(host) # <<>> THEN urlparse_hostname(host)[1] ELSE host

\* _TokenAuth(token), and the (login, password) tuple of basic auth.
_TokenAuth(token) == [kind |-> "token", token |-> token, login |-> "", password |-> ""]
BasicAuth(login, password) ==
    [kind |-> "basic", token |-> "", login |-> login, password |-> password]
NoAuth == [kind |-> "none", token |-> "", login |-> "", password |-> ""]

\* The Authorization header the auth object puts on a request.
Authorization(auth) ==
    IF auth.kind = "token" THEN <<"Bearer", auth.token>>
    ELSE <<"Basic", auth.login, auth.password>>

\* isinstance(exception, (ConnectionError, Timeout))
IsNetworkError(e) == e.exc \in {"ConnectionError", "Timeout"}

\* Variants of _retryable_error: one that retries on any error response,
\* one that looks at the status alone.
RetryOnAnyErrorStatus(e) ==
    \/ IsNetworkError(e)
    \/ /\ e.response # <<>>
       /\ e.response[1].status_code >= 400

RetryOnStatusOnly(e) ==
    /\ e.response # <<>>
    /\ e.response[1].status_code >= 500

\* _retryable_error: a or b and c is a or (b and c).
_retryable_error(e) ==
    \/ IsNetworkError(e)
    \/ /\ e.response # <<>>
       /\ e.response[1].status_code >= 500

\* response.raise_for_status(): HTTPError, carrying the response, for a
\* status of 400 to 599, nothing otherwise.
raise_for_status(response) ==
    IF response.status_code >= 400 /\ response.status_code < 600
    THEN <<Raised("HTTPError", <<response>>)>>
    ELSE <<>>

\* response.json(): the decoded body.
json_decode(content) == [json |-> content.id]

\* A dispatch that falls back on POST for any other method.
RequestFuncDefaultPost(method) ==
    IF method = "GET" THEN "requests.get"
    ELSE IF method = "PATCH" THEN "requests.patch"
    ELSE "requests.post"

\* The dispatch on the method: the request function, or none.
request_func(method) ==
    IF method = "GET" THEN "requests.get"
    ELSE IF method = "POST" THEN "requests.post"
    ELSE IF method = "PATCH" THEN "requests.patch"
    ELSE "unsupported"

\* Request arguments that send the payload as a body whatever the method.
RequestArgsBodyAlways(f, timeout) ==
    [url |-> f.url,
     func |-> request_func(f.method),
     json |-> f.json,
     params |-> IF f.method = "GET" THEN f.json ELSE "None",
     auth |-> Authorization(f.auth),
     headers |-> USER_AGENT_HEADER,
     timeout |-> timeout]

\* The keyword arguments of request_func(url, json=, params=, auth=,
\* headers=, timeout=).
RequestArgs(f, timeout) ==
    [url |-> f.url,
     func |-> request_func(f.method),
     json |-> IF f.method \in {"POST", "PATCH"} THEN f.json ELSE "None",
     params |-> IF f.method = "GET" THEN f.json ELSE "None",
     auth |-> Authorization(f.auth),
     headers |-> USER_AGENT_HEADER,
     timeout |-> timeout]

\* The url of line 183 for a host that line 175 has normalized already.
TokenOverrideUrl(host, endpoint) ==
    [host |-> _parse_host(_parse_host(host)), endpoint |-> endpoint]

\* ------------------------------------------------------------ results
NoResult ==
    [kind |-> "none", exc |-> "", msg |-> "", status_code |-> 0, content |-> <<>>,
     times |-> 0, value |-> <<>>]
Return(v) == [NoResult EXCEPT !.kind = "return", !.value = <<v>>]
Raise(cls, msg) == [NoResult EXCEPT !.kind = "raise", !.exc = cls, !.msg = msg]

\* AirflowException(f'Response: {e.response.content}, Status Code:
\* {e.response.status_code}'); on an exception without a response the
\* attribute access on None raises AttributeError instead.
FatalError(e) ==
    IF e.response = <<>>
    THEN Raise("AttributeError", "'NoneType' object has no attribute 'content'")
    ELSE [Raise("AirflowException", "Response, Status Code")
            EXCEPT !.status_code = e.response[1].status_code,
                   !.content = <<e.response[1].content>>]

\* AirflowException(f'API requests to Databricks failed {retry_limit} times.
\* Giving up.')
ExhaustedError(limit) ==
    [Raise("AirflowException", "API requests to Databricks failed. Giving up.")
       EXCEPT !.times = limit]

\* What the try block makes of the outcome of request_func: the exception
\* the except clause catches (a RequestException), the exception that passes
\* it by, or the value returned.
TryBlock(outcome, jsonError) ==
    IF outcome.exc # "none"
    THEN [caught |-> <<outcome>>, result |-> NoResult]
    ELSE IF raise_for_status(outcome.response[1]) # <<>>
    THEN [caught |-> raise_for_status(outcome.response[1]), result |-> NoResult]
    ELSE IF outcome.response[1].content.decodable
    THEN [caught |-> <<>>, result |-> Return(json_decode(outcome.response[1].content))]
    ELSE IF jsonError = "ValueError"
    THEN [caught |-> <<>>, result |-> Raise("ValueError", "Expecting value")]
    ELSE [caught |-> <<Raised("JSONDecodeError", <<>>)>>, result |-> NoResult]

\* An exhaustion check that never ends the retries.
ExhaustedNever(attempt_num, limit) == FALSE

\* An exhaustion check that is late by one attempt.
ExhaustedOffByOne(attempt_num, limit) == attempt_num = limit + 1

\* The condition that ends the retries.
Exhausted(attempt_num, limit) == attempt_num = limit

\* A loop body that checks for exhaustion before it logs the failure.
LoopBodyLogAfterCheck(outcome, jsonError, attempt_num, limit) ==
    LET t == TryBlock(outcome, jsonError) IN
    IF t.caught = <<>>
    THEN [next |-> "done", result |-> t.result, logged |-> <<>>]
    ELSE IF ~ _retryable_error(t.caught[1])
    THEN [next |-> "done", result |-> FatalError(t.caught[1]), logged |-> <<>>]
    ELSE IF Exhausted(attempt_num, limit)
    THEN [next |-> "done", result |-> ExhaustedError(limit), logged |-> <<>>]
    ELSE [next |-> "sleep", result |-> NoResult, logged |-> <<attempt_num>>]

\* One pass of the loop body after the request: lines 205 to 220.  next is
\* "done" with the result of the call, or "sleep" to go round again; logged
\* holds the attempt number handed to _log_request_error.
LoopBody(outcome, jsonError, attempt_num, limit) ==
    LET t == TryBlock(outcome, jsonError) IN
    IF t.caught = <<>>
    THEN [next |-> "done", result |-> t.result, logged |-> <<>>]
    ELSE IF ~ _retryable_error(t.caught[1])
    THEN [next |-> "done", result |-> FatalError(t.caught[1]), logged |-> <<>>]
    ELSE IF Exhausted(attempt_num, limit)
    THEN [next |-> "done", result |-> ExhaustedError(limit), logged |-> <<attempt_num>>]
    ELSE [next |-> "sleep", result |-> NoResult, logged |-> <<attempt_num>>]

\* ----------------------------------------------------------- RunState
RUN_LIFE_CYCLE_STATES ==
    {"PENDING", "RUNNING", "TERMINATING", "TERMINATED", "SKIPPED", "INTERNAL_ERROR"}

\* RunState(life_cycle_state, result_state, state_message); an absent
\* result_state (None) is the empty sequence.
RunState(life_cycle_state, result_state, state_message) ==
    [life_cycle_state |-> life_cycle_state, result_state |-> result_state,
     state_message |-> state_message]

\* An is_terminal without the check of the life cycle state.
IsTerminalUnchecked(rs) ==
    Return(rs.life_cycle_state \in {"TERMINATED", "SKIPPED", "INTERNAL_ERROR"})

\* RunState.is_terminal
is_terminal(rs) ==
    IF rs.life_cycle_state \notin RUN_LIFE_CYCLE_STATES
    THEN Raise("AirflowException", "Unexpected life cycle state")
    ELSE Return(rs.life_cycle_state \in {"TERMINATED", "SKIPPED", "INTERNAL_ERROR"})

\* An is_successful that asks for a terminal state first.
IsSuccessfulWhenTerminal(rs) ==
    IF is_terminal(rs).kind = "raise" THEN is_terminal(rs)
    ELSE Return(is_terminal(rs).value[1] /\ rs.result_state = <<"SUCCESS">>)

\* RunState.is_successful
is_successful(rs) == Return(rs.result_state = <<"SUCCESS">>)

\* The RunState objects the properties are evaluated on.
LifeCycleInputs == RUN_LIFE_CYCLE_STATES \cup {"QUEUED", "terminated"}
ResultInputs == {<<>>, <<"SUCCESS">>, <<"FAILED">>}
MessageInputs == {"", "msg"}
RunStates ==
    {RunState(l, r, m) : l \in LifeCycleInputs, r \in ResultInputs, m \in MessageInputs}

\* -------------------------------------------------------------- state
VARIABLES
    constructed,      \* "none", "ok", or the exception __init__ raised
    retry_limit_arg,  \* the retry_limit handed to __init__
    retry_limit,      \* self.retry_limit
    retry_delay,      \* self.retry_delay
    timeout_seconds,  \* self.timeout_seconds
    databricks_conn,  \* self.databricks_conn, shared by every call on the hook
    store,            \* the connection the provider holds (get_connection)
    pc,               \* per caller: the line its call stands at, or "idle"
    frame,            \* per caller: the locals of its _do_api_call
    result,           \* per caller: what its last call returned or raised
    fetched,          \* per caller: what its own get_connection returned
    previous,         \* per caller: self.databricks_conn before its own fetch
    requests,         \* per caller: the requests its call has issued
    outcomes,         \* per caller: what the transport answered to each
    sleeps,           \* per caller: the delays its call has slept
    logged,           \* per caller: the attempts handed to _log_request_error
    pure,             \* a RunState and a host string, and what the pure
                      \* functions of the module made of them
    facade,           \* per caller: the facade method it is in, if any
    heap,             \* the RunState objects created so far
    returned          \* per caller: what its last facade method returned

vars == <<constructed, retry_limit_arg, retry_limit, retry_delay, timeout_seconds,
          databricks_conn, store, pc, frame, result, fetched, previous,
          requests, outcomes, sleeps, logged, pure, facade, heap, returned>>

hookVars == <<constructed, retry_limit_arg, retry_limit, retry_delay, timeout_seconds>>
traceVars == <<requests, outcomes, sleeps, logged>>
outerVars == <<pure, facade, heap, returned>>
callVars == <<databricks_conn, store, pc, frame, result, fetched, previous>>

\* Nothing evaluated yet.
NoPure ==
    [run_state |-> RunState("", <<>>, ""), host |-> Host(FALSE, "", FALSE),
     is_terminal |-> <<>>, is_successful |-> <<>>, parsed |-> <<>>,
     reparsed |-> <<>>, url |-> <<>>]

\* No facade method in progress; nothing returned by one yet.
NoFacade == [name |-> "", calls |-> 0]
NoReturned == [name |-> "", calls |-> 0, requests |-> 0, result |-> NoResult]

NoFrame ==
    [method |-> "", endpoint |-> "", json |-> "", auth |-> NoAuth,
     host |-> NoConn.host, url |-> [host |-> NoConn.host, endpoint |-> ""],
     attempt_num |-> 0]

InitHook ==
    /\ constructed = "none"
    /\ retry_limit_arg = 0
    /\ retry_limit = 0
    /\ retry_delay = 0
    /\ timeout_seconds = 0
    /\ databricks_conn = NoConn
    /\ store \in Connections
    /\ pc = [t \in Callers |-> "idle"]
    /\ frame = [t \in Callers |-> NoFrame]
    /\ result = [t \in Callers |-> NoResult]
    /\ fetched = [t \in Callers |-> NoConn]
    /\ previous = [t \in Callers |-> NoConn]
    /\ requests = [t \in Callers |-> <<>>]
    /\ outcomes = [t \in Callers |-> <<>>]
    /\ sleeps = [t \in Callers |-> <<>>]
    /\ logged = [t \in Callers |-> <<>>]
    /\ facade = [t \in Callers |-> NoFacade]
    /\ heap = <<>>
    /\ returned = [t \in Callers |-> NoReturned]

Init == InitHook /\ pure = NoPure

\* ------------------------------------------------------- construction
\* A guard that lets retry_limit = 0 through.
RetryLimitRejectedBelowZero(limit) == limit < 0

\* if retry_limit < 1: raise ValueError
RetryLimitRejected(limit) == limit < 1

\* DatabricksHook.__init__
Construct(limits, delays) ==
    /\ constructed = "none"
    /\ \E limit \in limits, delay \in delays :
         /\ retry_limit_arg' = limit
         /\ timeout_seconds' = DefaultTimeout
         /\ IF RetryLimitRejected(limit)
            THEN /\ constructed' = "ValueError"
                 /\ UNCHANGED <<retry_limit, retry_delay>>
            ELSE /\ constructed' = "ok"
                 /\ retry_limit' = limit
                 /\ retry_delay' = delay
    /\ UNCHANGED <<databricks_conn, store, pc, frame, result, fetched, previous>>
    /\ UNCHANGED traceVars
    /\ UNCHANGED outerVars

\* The provider's connection is edited (outside the hook).
SetConnection(conns) ==
    /\ \E c \in conns \ {store} : store' = c
    /\ UNCHANGED hookVars
    /\ UNCHANGED outerVars
    /\ UNCHANGED <<databricks_conn, pc, frame, result, fetched, previous>>
    /\ UNCHANGED traceVars

\* ------------------------------------------------------- _do_api_call
\* The call ends: it returns or raises r.
Finish(t, r) ==
    /\ pc' = [pc EXCEPT ![t] = "idle"]
    /\ result' = [result EXCEPT ![t] = r]

Goto(t, line) ==
    /\ pc' = [pc EXCEPT ![t] = line]
    /\ UNCHANGED result

\* Line 167: method, endpoint = endpoint_info
EnterCall(t, info, json) ==
    /\ frame' = [frame EXCEPT ![t] =
                   [NoFrame EXCEPT !.method = info[1], !.endpoint = info[2],
                                   !.json = json]]
    /\ pc' = [pc EXCEPT ![t] = "L169"]
    /\ result' = [result EXCEPT ![t] = NoResult]
    /\ fetched' = [fetched EXCEPT ![t] = NoConn]
    /\ previous' = [previous EXCEPT ![t] = NoConn]
    /\ requests' = [requests EXCEPT ![t] = <<>>]
    /\ outcomes' = [outcomes EXCEPT ![t] = <<>>]
    /\ sleeps' = [sleeps EXCEPT ![t] = <<>>]
    /\ logged' = [logged EXCEPT ![t] = <<>>]
    /\ UNCHANGED hookVars
    /\ UNCHANGED <<databricks_conn, store>>

\* A caller invokes _do_api_call itself.
StartCall(t, infos) ==
    /\ constructed = "ok"
    /\ pc[t] = "idle"
    /\ \E info \in infos, json \in Payloads : EnterCall(t, info, json)
    /\ UNCHANGED outerVars

\* A hook that keeps the connection it resolved first.
ResolveConnCached(current, provided) ==
    IF current = NoConn THEN provided ELSE current

\* The value line 169 assigns: what get_connection returns now.
ResolveConn(current, provided) == provided

\* Line 169: self.databricks_conn = self.get_connection(self.databricks_conn_id)
GetConnection(t) ==
    /\ pc[t] = "L169"
    /\ databricks_conn' = ResolveConn(databricks_conn, store)
    /\ fetched' = [fetched EXCEPT ![t] = store]
    /\ previous' = [previous EXCEPT ![t] = databricks_conn]
    /\ Goto(t, "L171")
    /\ UNCHANGED hookVars
    /\ UNCHANGED outerVars
    /\ UNCHANGED <<store, frame>>
    /\ UNCHANGED traceVars

\* Line 171: if 'token' in self.databricks_conn.extra_dejson
CheckToken(t) ==
    /\ pc[t] = "L171"
    /\ Goto(t, IF "token" \in DOMAIN databricks_conn.extra_dejson THEN "L173" ELSE "L180")
    /\ UNCHANGED hookVars
    /\ UNCHANGED outerVars
    /\ UNCHANGED <<databricks_conn, store, frame, fetched, previous>>
    /\ UNCHANGED traceVars

\* Line 173: auth = _TokenAuth(self.databricks_conn.extra_dejson['token'])
TokenAuth(t) ==
    /\ pc[t] = "L173"
    /\ IF "token" \in DOMAIN databricks_conn.extra_dejson
       THEN /\ frame' = [frame EXCEPT ![t].auth = _TokenAuth(databricks_conn.extra_dejson.token)]
            /\ Goto(t, "L174")
       ELSE /\ Finish(t, Raise("KeyError", "token"))
            /\ UNCHANGED frame
    /\ UNCHANGED hookVars
    /\ UNCHANGED outerVars
    /\ UNCHANGED <<databricks_conn, store, fetched, previous>>
    /\ UNCHANGED traceVars

\* Line 174: if 'host' in self.databricks_conn.extra_dejson
CheckHost(t) ==
    /\ pc[t] = "L174"
    /\ Goto(t, IF "host" \in DOMAIN databricks_conn.extra_dejson THEN "L175" ELSE "L177")
    /\ UNCHANGED hookVars
    /\ UNCHANGED outerVars
    /\ UNCHANGED <<databricks_conn, store, frame, fetched, previous>>
    /\ UNCHANGED traceVars

\* Line 175: host = self._parse_host(self.databricks_conn.extra_dejson['host'])
ExtraHost(t) ==
    /\ pc[t] = "L175"
    /\ IF "host" \in DOMAIN databricks_conn.extra_dejson
       THEN /\ frame' = [frame EXCEPT ![t].host = _parse_host(databricks_conn.extra_dejson.host)]
            /\ Goto(t, "L183")
       ELSE /\ Finish(t, Raise("KeyError", "host"))
            /\ UNCHANGED frame
    /\ UNCHANGED hookVars
    /\ UNCHANGED outerVars
    /\ UNCHANGED <<databricks_conn, store, fetched, previous>>
    /\ UNCHANGED traceVars

\* A host assignment that takes the override of extra_dejson whenever there
\* is one, under basic auth too.
ConnHostPreferOverride(t) ==
    /\ pc[t] \in {"L177", "L181"}
    /\ frame' = [frame EXCEPT ![t].host =
                    IF "host" \in DOMAIN databricks_conn.extra_dejson
                    THEN _parse_host(databricks_conn.extra_dejson.host)
                    ELSE databricks_conn.host]
    /\ Goto(t, "L183")
    /\ UNCHANGED hookVars
    /\ UNCHANGED outerVars
    /\ UNCHANGED <<databricks_conn, store, fetched, previous>>
    /\ UNCHANGED traceVars

\* Lines 177 and 181: host = self.databricks_conn.host
ConnHost(t) ==
    /\ pc[t] \in {"L177", "L181"}
    /\ frame' = [frame EXCEPT ![t].host = databricks_conn.host]
    /\ Goto(t, "L183")
    /\ UNCHANGED hookVars
    /\ UNCHANGED outerVars
    /\ UNCHANGED <<databricks_conn, store, fetched, previous>>
    /\ UNCHANGED traceVars

\* Line 180, first element of the tuple: self.databricks_conn.login
BasicLogin(t) ==
    /\ pc[t] = "L180"
    /\ frame' = [frame EXCEPT ![t].auth = BasicAuth(databricks_conn.login, "")]
    /\ Goto(t, "L180b")
    /\ UNCHANGED hookVars
    /\ UNCHANGED outerVars
    /\ UNCHANGED <<databricks_conn, store, fetched, previous>>
    /\ UNCHANGED traceVars

\* Line 180, second element: self.databricks_conn.password
BasicPassword(t) ==
    /\ pc[t] = "L180b"
    /\ frame' = [frame EXCEPT ![t].auth = BasicAuth(frame[t].auth.login, databricks_conn.password)]
    /\ Goto(t, "L181")
    /\ UNCHANGED hookVars
    /\ UNCHANGED outerVars
    /\ UNCHANGED <<databricks_conn, store, fetched, previous>>
    /\ UNCHANGED traceVars

\* Lines 183 to 194: the url, the dispatch on the method, attempt_num = 1
Dispatch(t) ==
    /\ pc[t] = "L183"
    /\ frame' = [frame EXCEPT ![t].url = [host |-> _parse_host(frame[t].host),
                                          endpoint |-> frame[t].endpoint],
                              ![t].attempt_num =
                                  IF request_func(frame[t].method) = "unsupported"
                                  THEN 0 ELSE 1]
    /\ IF request_func(frame[t].method) = "unsupported"
       THEN Finish(t, Raise("AirflowException", "Unexpected HTTP Method"))
       ELSE Goto(t, "L197")
    /\ UNCHANGED hookVars
    /\ UNCHANGED outerVars
    /\ UNCHANGED <<databricks_conn, store, fetched, previous>>
    /\ UNCHANGED traceVars

\* Lines 197 to 204: response = request_func(url, ...)
Request(t, answers) ==
    /\ pc[t] = "L197"
    /\ requests' = [requests EXCEPT ![t] = Append(@, RequestArgs(frame[t], timeout_seconds))]
    /\ \E o \in answers : outcomes' = [outcomes EXCEPT ![t] = Append(@, o)]
    /\ Goto(t, "L205")
    /\ UNCHANGED hookVars
    /\ UNCHANGED outerVars
    /\ UNCHANGED <<databricks_conn, store, frame, fetched, previous, sleeps, logged>>

\* Lines 205 to 220: raise_for_status, json, the except clause, the
\* exhaustion check
HandleResponse(t) ==
    /\ pc[t] = "L205"
    /\ \E jsonError \in JsonErrors :
         LET b == LoopBody(outcomes[t][Len(outcomes[t])], jsonError,
                           frame[t].attempt_num, retry_limit) IN
         /\ logged' = [logged EXCEPT ![t] = @ \o b.logged]
         /\ IF b.next = "done" THEN Finish(t, b.result) ELSE Goto(t, "L222")
    /\ UNCHANGED hookVars
    /\ UNCHANGED outerVars
    /\ UNCHANGED <<databricks_conn, store, frame, fetched, previous, requests,
                   outcomes, sleeps>>

\* A wait that grows with the attempt number.
SleepBackoff(delay, attempt_num) == delay * attempt_num

\* The wait before a retry.
SleepFor(delay, attempt_num) == delay

\* Lines 222 and 223: attempt_num += 1; sleep(self.retry_delay)
Sleep(t) ==
    /\ pc[t] = "L222"
    /\ frame' = [frame EXCEPT ![t].attempt_num = @ + 1]
    /\ sleeps' = [sleeps EXCEPT ![t] = Append(@, SleepFor(retry_delay, frame[t].attempt_num))]
    /\ Goto(t, "L197")
    /\ UNCHANGED hookVars
    /\ UNCHANGED outerVars
    /\ UNCHANGED <<databricks_conn, store, fetched, previous, requests, outcomes, logged>>

\* ----------------------------------------------------- specifications
\* One step of caller t's call.
Resolve(t) ==
    \/ GetConnection(t)
    \/ CheckToken(t)
    \/ TokenAuth(t)
    \/ CheckHost(t)
    \/ ExtraHost(t)
    \/ ConnHost(t)
    \/ BasicLogin(t)
    \/ BasicPassword(t)
    \/ Dispatch(t)

\* A single caller: its calls follow one another.
Next ==
    \/ Construct(RetryLimits, RetryDelays)
    \/ SetConnection(Connections)
    \/ \E t \in SeqCallers :
         \/ StartCall(t, EndpointInfos)
         \/ Resolve(t)
         \/ Request(t, TransportOutcomes(Len(requests[t]) + 1))
         \/ HandleResponse(t)
         \/ Sleep(t)

Spec == Init /\ [][Next]_vars

\* A single caller whose thread keeps running: a call that has started
\* takes its next step, every request returns or fails, every sleep ends.
LiveEndpointInfos == {GET_RUN_ENDPOINT, DeleteEndpoint}

CallStep(t) ==
    \/ Resolve(t)
    \/ Request(t, TransportOutcomes(Len(requests[t]) + 1))
    \/ HandleResponse(t)
    \/ Sleep(t)

NextLive ==
    \/ Construct(1 .. MaxRetryLimit, {1})
    \/ SetConnection(Connections)
    \/ \E t \in SeqCallers :
         \/ StartCall(t, LiveEndpointInfos)
         \/ CallStep(t)

SpecLive ==
    Init /\ [][NextLive]_vars /\ \A t \in SeqCallers : WF_vars(CallStep(t))

\* ------------------------------------------------------------- facade
MaxRunStates == 2

FacadeNames ==
    {"run_now", "submit_run", "get_run_page_url", "get_job_id", "get_run_state",
     "cancel_run", "restart_cluster", "start_cluster", "terminate_cluster",
     "install", "uninstall"}

\* A facade method that reuses the endpoint of another.
FacadeEndpointSubmitAsRunNow(name) ==
    CASE name = "run_now" -> RUN_NOW_ENDPOINT
      [] name = "submit_run" -> RUN_NOW_ENDPOINT
      [] name \in {"get_run_page_url", "get_job_id", "get_run_state"} -> GET_RUN_ENDPOINT
      [] name = "cancel_run" -> CANCEL_RUN_ENDPOINT
      [] name = "restart_cluster" -> RESTART_CLUSTER_ENDPOINT
      [] name = "start_cluster" -> START_CLUSTER_ENDPOINT
      [] name = "terminate_cluster" -> TERMINATE_CLUSTER_ENDPOINT
      [] name = "install" -> INSTALL_LIBS_ENDPOINT
      [] name = "uninstall" -> UNINSTALL_LIBS_ENDPOINT

\* The endpoint constant each facade method hands to _do_api_call.
FacadeEndpoint(name) ==
    CASE name = "run_now" -> RUN_NOW_ENDPOINT
      [] name = "submit_run" -> SUBMIT_RUN_ENDPOINT
      [] name \in {"get_run_page_url", "get_job_id", "get_run_state"} -> GET_RUN_ENDPOINT
      [] name = "cancel_run" -> CANCEL_RUN_ENDPOINT
      [] name = "restart_cluster" -> RESTART_CLUSTER_ENDPOINT
      [] name = "start_cluster" -> START_CLUSTER_ENDPOINT
      [] name = "terminate_cluster" -> TERMINATE_CLUSTER_ENDPOINT
      [] name = "install" -> INSTALL_LIBS_ENDPOINT
      [] name = "uninstall" -> UNINSTALL_LIBS_ENDPOINT

\* A decoded response body: each key holds a value or is missing (<<>>).
StateDoc(life_cycle_state, result_state, state_message) ==
    [life_cycle_state |-> life_cycle_state, result_state |-> result_state,
     state_message |-> state_message]

RunDoc(state) ==
    [run_id |-> <<"run_id_1">>, job_id |-> <<"job_id_1">>,
     run_page_url |-> <<"run_page_url_1">>, state |-> state]

EmptyDoc == [run_id |-> <<>>, job_id |-> <<>>, run_page_url |-> <<>>, state |-> <<>>]

\* Four bodies with a complete state, any two of which differ in one field
\* or in two; one whose state has no state_message; one without any key.
Docs ==
    {RunDoc(<<StateDoc(<<"RUNNING">>, <<>>, <<"">>)>>),
     RunDoc(<<StateDoc(<<"TERMINATED">>, <<>>, <<"">>)>>),
     RunDoc(<<StateDoc(<<"TERMINATED">>, <<"SUCCESS">>, <<"">>)>>),
     RunDoc(<<StateDoc(<<"TERMINATED">>, <<"SUCCESS">>, <<"msg">>)>>),
     RunDoc(<<StateDoc(<<"TERMINATED">>, <<"SUCCESS">>, <<>>)>>),
     EmptyDoc}

FacadeOutcomes ==
    {Returned(Response(200, d, TRUE)) : d \in Docs}
        \cup {Returned(Response(404, EmptyDoc, TRUE)),
              Returned(Response(500, EmptyDoc, TRUE))}

\* What a facade method returns: a string of the response, a reference to
\* a RunState object, or None.
StrValue(str) == [type |-> "str", str |-> str, ref |-> 0]
RefValue(ref) == [type |-> "RunState", str |-> "", ref |-> ref]
NoneValue == [type |-> "None", str |-> "", ref |-> 0]

\* response[key]
Item(doc, key) ==
    IF doc[key] = <<>> THEN Raise("KeyError", key) ELSE Return(StrValue(doc[key][1]))

\* A constructor that hands out the object it made last.
AllocateReuse(h, rs) ==
    IF h = <<>> THEN [heap |-> <<rs>>, ref |-> 1]
    ELSE [heap |-> [h EXCEPT ![Len(h)] = rs], ref |-> Len(h)]

\* RunState(...): a new object
Allocate(h, rs) == [heap |-> Append(h, rs), ref |-> Len(h) + 1]

\* Lines 284-289 of get_run_state.
RunStateFromResponse(response, h) ==
    IF response.state = <<>>
    THEN [result |-> Raise("KeyError", "state"), heap |-> h]
    ELSE IF response.state[1].life_cycle_state = <<>>
    THEN [result |-> Raise("KeyError", "life_cycle_state"), heap |-> h]
    ELSE IF response.state[1].state_message = <<>>
    THEN [result |-> Raise("KeyError", "state_message"), heap |-> h]
    ELSE LET a == Allocate(h, RunState(response.state[1].life_cycle_state[1],
                                       response.state[1].result_state,
                                       response.state[1].state_message[1])) IN
         [result |-> Return(RefValue(a.ref)), heap |-> a.heap]

\* RunState.__eq__ on two RunState objects
RunStateEq(a, b) ==
    /\ a.life_cycle_state = b.life_cycle_state
    /\ a.result_state = b.result_state
    /\ a.state_message = b.state_message

\* What follows self._do_api_call(...) in the facade method: an exception
\* of the call leaves the method; a response is taken apart.
FacadeBody(name, r, h) ==
    IF r.kind = "raise" THEN [result |-> r, heap |-> h]
    ELSE IF name \in {"run_now", "submit_run"}
    THEN [result |-> Item(r.value[1].json, "run_id"), heap |-> h]
    ELSE IF name = "get_run_page_url"
    THEN [result |-> Item(r.value[1].json, "run_page_url"), heap |-> h]
    ELSE IF name = "get_job_id"
    THEN [result |-> Item(r.value[1].json, "job_id"), heap |-> h]
    ELSE IF name = "get_run_state"
    THEN RunStateFromResponse(r.value[1].json, h)
    ELSE [result |-> Return(NoneValue), heap |-> h]

\* A caller invokes a facade method, which calls _do_api_call.
FacadeCall(t, names) ==
    /\ constructed = "ok"
    /\ pc[t] = "idle"
    /\ facade[t] = NoFacade
    /\ \E name \in names, json \in Payloads :
         /\ name = "get_run_state" => Len(heap) < MaxRunStates
         /\ facade' = [facade EXCEPT ![t] = [name |-> name, calls |-> 1]]
         /\ EnterCall(t, FacadeEndpoint(name), json)
    /\ returned' = [returned EXCEPT ![t] = NoReturned]
    /\ UNCHANGED <<pure, heap>>

\* The _do_api_call of the facade method has ended: the method ends.
FacadeReturn(t) ==
    /\ facade[t] # NoFacade
    /\ pc[t] = "idle"
    /\ result[t].kind # "none"
    /\ LET b == FacadeBody(facade[t].name, result[t], heap) IN
         /\ heap' = b.heap
         /\ returned' = [returned EXCEPT ![t] =
                           [name |-> facade[t].name, calls |-> facade[t].calls,
                            requests |-> Len(requests[t]), result |-> b.result]]
    /\ facade' = [facade EXCEPT ![t] = NoFacade]
    /\ UNCHANGED <<hookVars, callVars, traceVars, pure>>

InitFacade == Init /\ store \in ConcConnections

NextFacade ==
    \/ Construct(1 .. MaxRetryLimit, {1})
    \/ \E t \in SeqCallers :
         \/ FacadeCall(t, FacadeNames)
         \/ Resolve(t)
         \/ Request(t, FacadeOutcomes)
         \/ HandleResponse(t)
         \/ Sleep(t)
         \/ FacadeReturn(t)

SpecFacade == InitFacade /\ [][NextFacade]_vars

\* The pure functions of the module, applied to a RunState and to a host
\* string drawn at the start.
EvalIsTerminal ==
    /\ pure.is_terminal = <<>>
    /\ pure' = [pure EXCEPT !.is_terminal = <<is_terminal(pure.run_state)>>]
    /\ UNCHANGED <<hookVars, callVars, traceVars, facade, heap, returned>>

EvalIsSuccessful ==
    /\ pure.is_successful = <<>>
    /\ pure' = [pure EXCEPT !.is_successful = <<is_successful(pure.run_state)>>]
    /\ UNCHANGED <<hookVars, callVars, traceVars, facade, heap, returned>>

ParseHost ==
    /\ pure.parsed = <<>>
    /\ pure' = [pure EXCEPT !.parsed = <<_parse_host(pure.host)>>]
    /\ UNCHANGED <<hookVars, callVars, traceVars, facade, heap, returned>>

ParseHostAgain ==
    /\ pure.parsed # <<>>
    /\ pure.reparsed = <<>>
    /\ pure' = [pure EXCEPT !.reparsed = <<_parse_host(pure.parsed[1])>>,
                            !.url = <<TokenOverrideUrl(pure.host, GET_RUN_ENDPOINT[2])>>]
    /\ UNCHANGED <<hookVars, callVars, traceVars, facade, heap, returned>>

InitPure ==
    /\ InitHook
    /\ \E rs \in RunStates, h \in Hosts :
         pure = [NoPure EXCEPT !.run_state = rs, !.host = h]

NextPure ==
    \/ EvalIsTerminal
    \/ EvalIsSuccessful
    \/ ParseHost
    \/ ParseHostAgain

SpecPure == InitPure /\ [][NextPure]_vars

\* Several callers on separate threads: their calls interleave.
NextConc ==
    \/ Construct({2}, {1})
    \/ SetConnection(ConcConnections)
    \/ \E t \in Callers :
         \/ StartCall(t, ConcEndpointInfos)
         \/ Resolve(t)
         \/ Request(t, ConcTransportOutcomes(Len(requests[t]) + 1))
         \/ HandleResponse(t)
         \/ Sleep(t)

InitConc == Init /\ store \in ConcConnections

SpecConc == InitConc /\ [][NextConc]_vars

\* ------------------------------------------------------------- claims
\* The call of caller t has ended.
Done(t) == pc[t] = "idle" /\ result[t].kind # "none"

\* The call of caller t has issued a request.
Requested(t) == requests[t] # <<>>

LastOutcome(t) == outcomes[t][Len(outcomes[t])]

\* The transport's answer is a response received with this status range.
ReceivedStatus(o, lo, hi) ==
    /\ o.exc = "none"
    /\ o.response[1].status_code >= lo
    /\ o.response[1].status_code <= hi

\* A retryable failure as the specification words it: a connection error or
\* a timeout, or an HTTP status of 500 or more.
RetryableFailure(o) ==
    \/ o.exc \in {"ConnectionError", "Timeout"}
    \/ o.response # <<>> /\ o.response[1].status_code >= 500

\* A successful response: 2xx with a body that decodes.
Success(o) == ReceivedStatus(o, 200, 299) /\ o.response[1].content.decodable

AllRetryable(t, n) == \A i \in 1 .. n : RetryableFailure(outcomes[t][i])

IsExhaustedError(r) ==
    /\ r.kind = "raise"
    /\ r.exc = "AirflowException"
    /\ r.msg = "API requests to Databricks failed. Giving up."
    /\ r.times = retry_limit

\* C1: when every attempt of a call ends in a retryable failure, the call
\* issues exactly retry_limit requests and sleeps exactly retry_limit - 1
\* times, then fails with the retries-exhausted error; it never issues
\* request retry_limit + 1 and never sleeps after the last failed attempt.
RetryExhaustion ==
    \A t \in Callers :
        (Requested(t) /\ AllRetryable(t, Len(outcomes[t]))) =>
            /\ Len(requests[t]) <= retry_limit
            /\ Len(sleeps[t]) <= retry_limit - 1
            /\ Len(sleeps[t]) = Len(requests[t]) - (IF pc[t] = "L197" THEN 0 ELSE 1)
            /\ (pc[t] = "idle" /\ Len(outcomes[t]) = Len(requests[t])) =>
                   /\ Len(requests[t]) = retry_limit
                   /\ Len(sleeps[t]) = retry_limit - 1
                   /\ IsExhaustedError(result[t])

RetryExhaustionWitness ==
    \E t \in Callers :
        /\ Done(t)
        /\ retry_limit = 3
        /\ Len(requests[t]) = 3
        /\ AllRetryable(t, 3)
        /\ IsExhaustedError(result[t])

\* C2: when attempts 1..k-1 fail with a retryable failure and attempt k gets
\* a successful response, the call returns the decoded body of the k-th
\* response after exactly k requests and k-1 sleeps, each sleep of the
\* configured retry_delay.
RetryThenSuccess ==
    \A t \in Callers :
        LET k == Len(outcomes[t]) IN
        (k >= 1 /\ AllRetryable(t, k - 1) /\ Success(outcomes[t][k])) =>
            /\ k <= retry_limit
            /\ Len(requests[t]) = k
            /\ sleeps[t] = [i \in 1 .. k - 1 |-> retry_delay]
            /\ pc[t] \in {"L205", "idle"}
            /\ pc[t] = "idle" =>
                   result[t] = Return([json |-> outcomes[t][k].response[1].content.id])

RetryThenSuccessWitness ==
    \E t \in Callers :
        /\ Done(t)
        /\ Len(outcomes[t]) = 3
        /\ AllRetryable(t, 2)
        /\ Success(outcomes[t][3])
        /\ result[t].kind = "return"
        /\ Len(sleeps[t]) = 2

\* C3: a 4xx response to attempt k aborts the call at once with an error
\* carrying that response's body and status code: k requests in all, and no
\* request and no sleep after the 4xx response.
FatalShortCircuit ==
    \A t \in Callers :
        \A k \in 1 .. Len(outcomes[t]) :
            ReceivedStatus(outcomes[t][k], 400, 499) =>
                /\ Len(outcomes[t]) = k
                /\ Len(requests[t]) = k
                /\ Len(sleeps[t]) = k - 1
                /\ pc[t] \in {"L205", "idle"}
                /\ pc[t] = "idle" =>
                       /\ result[t].kind = "raise"
                       /\ result[t].exc = "AirflowException"
                       /\ result[t].status_code = outcomes[t][k].response[1].status_code
                       /\ result[t].content = <<outcomes[t][k].response[1].content>>

FatalShortCircuitWitness ==
    \E t \in Callers :
        /\ Done(t)
        /\ Len(outcomes[t]) = 2
        /\ retry_limit = 3
        /\ ReceivedStatus(outcomes[t][2], 400, 499)
        /\ result[t].status_code = 404

\* The attempt ended in an error: the transport raised, the status made
\* raise_for_status raise, or the body did not decode.
Failed(o) ==
    \/ o.exc # "none"
    \/ raise_for_status(o.response[1]) # <<>>
    \/ ~ o.response[1].content.decodable

\* Attempt i of caller t's call has been through the handler.
Handled(t, i) == i < Len(outcomes[t]) \/ (i = Len(outcomes[t]) /\ pc[t] # "L205")

\* Attempt i was classified retryable: it was handed to _log_request_error.
ClassifiedRetryable(t, i) == \E j \in 1 .. Len(logged[t]) : logged[t][j] = i

\* C4: a failed attempt is classified retryable exactly when it is a
\* connection error or a timeout (with or without a response) or carries a
\* response with status >= 500; every other failure is fatal: the call ends
\* there with an error, unretried.
ErrorClassification ==
    \A t \in Callers :
        \A i \in 1 .. Len(outcomes[t]) :
            (Handled(t, i) /\ Failed(outcomes[t][i])) =>
                /\ ClassifiedRetryable(t, i) <=> RetryableFailure(outcomes[t][i])
                /\ ~ RetryableFailure(outcomes[t][i]) =>
                       /\ i = Len(outcomes[t])
                       /\ i = Len(requests[t])
                       /\ pc[t] = "idle"
                       /\ result[t].kind = "raise"
                       /\ ~ IsExhaustedError(result[t])

ErrorClassificationWitness ==
    \E t \in Callers :
        /\ Done(t)
        /\ Len(outcomes[t]) = 3
        /\ outcomes[t][1] = Raised("ConnectionError", <<Response(400, 1, TRUE)>>)
        /\ outcomes[t][2] = Raised("Timeout", <<>>)
        /\ outcomes[t][3] = Raised("InvalidURL", <<>>)
        /\ logged[t] = <<1, 2>>

\* C5: every way a call can fail (unsupported method, a fatal failure with
\* or without a response, an undecodable success body, retry exhaustion)
\* surfaces as the one error kind AirflowException with a message, and a
\* failing call returns no partial result.
SingleErrorKind ==
    \A t \in Callers :
        result[t].kind = "raise" =>
            /\ result[t].exc = "AirflowException"
            /\ result[t].msg # ""
            /\ result[t].value = <<>>

\* C6: a call returns a decoded result exactly when the response of its
\* final attempt has a 2xx status (with a body that decodes); no other
\* status produces a result, and a response with a non-2xx status below 500
\* is fatal.
ResultOnly2xx ==
    \A t \in Callers :
        (Done(t) /\ Requested(t)) =>
            /\ result[t].kind = "return" <=> Success(LastOutcome(t))
            /\ result[t].kind = "return" => ReceivedStatus(LastOutcome(t), 200, 299)
            /\ (LastOutcome(t).exc = "none" /\ ~ ReceivedStatus(LastOutcome(t), 200, 299)
                  /\ LastOutcome(t).response[1].status_code < 500) =>
                   /\ result[t].kind = "raise"
                   /\ result[t].exc = "AirflowException"
                   /\ result[t].status_code = LastOutcome(t).response[1].status_code

\* The call of caller t has started (its frame holds its arguments).
Started(t) == frame[t].method # ""

\* C7: a call whose method is none of GET, POST, PATCH fails with the
\* configuration error before any request: no request, no sleep, no retry,
\* whatever the connection and the retry_limit.
UnsupportedMethod ==
    \A t \in Callers :
        (Started(t) /\ frame[t].method \notin {"GET", "POST", "PATCH"}) =>
            /\ requests[t] = <<>>
            /\ sleeps[t] = <<>>
            /\ logged[t] = <<>>
            /\ outcomes[t] = <<>>
            /\ pc[t] \notin {"L197", "L205", "L222"}
            /\ Done(t) => result[t] = Raise("AirflowException", "Unexpected HTTP Method")

UnsupportedMethodWitness ==
    \E t \in Callers :
        /\ Done(t)
        /\ frame[t].method = "DELETE"
        /\ result[t].msg = "Unexpected HTTP Method"
        /\ retry_limit = 3
        /\ fetched[t] = ConnBasic

\* C8: construction with retry_limit < 1 fails with a configuration error
\* and leaves no client to call; every retry_limit >= 1 constructs; hence
\* every call runs with retry_limit >= 1.
ConstructionGuard ==
    /\ (constructed # "none" /\ retry_limit_arg < 1) =>
           /\ constructed = "ValueError"
           /\ \A t \in Callers : pc[t] = "idle" /\ ~ Started(t)
    /\ (constructed # "none" /\ retry_limit_arg >= 1) =>
           /\ constructed = "ok"
           /\ retry_limit = retry_limit_arg
    /\ \A t \in Callers : Started(t) => retry_limit >= 1

ConstructionGuardWitness ==
    /\ constructed = "ValueError"
    /\ retry_limit_arg = 0

\* The auth and the host a connection stands for.
ExpectedAuth(c) ==
    IF "token" \in DOMAIN c.extra_dejson
    THEN [kind |-> "token", token |-> c.extra_dejson.token, login |-> "", password |-> ""]
    ELSE [kind |-> "basic", token |-> "", login |-> c.login, password |-> c.password]

ExpectedHost(c) ==
    IF "token" \in DOMAIN c.extra_dejson /\ "host" \in DOMAIN c.extra_dejson
    THEN [scheme |-> FALSE, userinfo |-> FALSE, name |-> c.extra_dejson.host.name,
          upper |-> FALSE, port |-> FALSE, path |-> FALSE]
    ELSE c.host

\* C9: when calls on one hook interleave, each call takes its auth variant,
\* its credentials and its host from the one connection its own resolution
\* returned, and ends as it would alone (no failure of the resolution).
CallsIndependent ==
    \A t \in Callers :
        /\ result[t].exc # "KeyError"
        /\ (pc[t] \in {"L197", "L205", "L222"} \/ Requested(t)) =>
               /\ frame[t].auth = ExpectedAuth(fetched[t])
               /\ frame[t].host = ExpectedHost(fetched[t])

\* C10: every call fetches the connection again, so when the stored
\* connection changed between two calls, every request of the later call
\* carries the host and the credentials of the connection stored at its own
\* fetch, whatever an earlier call resolved.
FreshResolution ==
    \A t \in Callers :
        /\ pc[t] \notin {"idle", "L169"} => databricks_conn = fetched[t]
        /\ \A i \in 1 .. Len(requests[t]) :
               /\ requests[t][i].url.host = _parse_host(ExpectedHost(fetched[t]))
               /\ requests[t][i].auth = Authorization(ExpectedAuth(fetched[t]))

FreshResolutionWitness ==
    \E t \in Callers :
        /\ Requested(t)
        /\ previous[t] # NoConn
        /\ previous[t] # fetched[t]
        /\ fetched[t] = ConnBasic
        /\ previous[t] = ConnTokenHost

\* The call of caller t has resolved its auth and its host.
Resolved(t) == pc[t] \in {"L183", "L197", "L205", "L222"} \/ Requested(t)

HasToken(c) == "token" \in DOMAIN c.extra_dejson
HasHostOverride(c) == "host" \in DOMAIN c.extra_dejson

\* C11: a connection with a token signs with 'Authorization: Bearer <token>',
\* any other with basic credentials (login, password); the host is the
\* override of extra_dejson only when the connection has both a token and an
\* override, and the connection's own host field in every other case.
AuthHostSelection ==
    \A t \in Callers :
        Resolved(t) =>
            /\ HasToken(fetched[t]) =>
                   /\ frame[t].auth.kind = "token"
                   /\ \A i \in 1 .. Len(requests[t]) :
                          requests[t][i].auth = <<"Bearer", fetched[t].extra_dejson.token>>
            /\ ~ HasToken(fetched[t]) =>
                   /\ frame[t].auth.kind = "basic"
                   /\ \A i \in 1 .. Len(requests[t]) :
                          requests[t][i].auth =
                              <<"Basic", fetched[t].login, fetched[t].password>>
            /\ (HasToken(fetched[t]) /\ HasHostOverride(fetched[t])) =>
                   frame[t].host.name = fetched[t].extra_dejson.host.name
            /\ ~ (HasToken(fetched[t]) /\ HasHostOverride(fetched[t])) =>
                   frame[t].host = fetched[t].host

AuthHostSelectionWitness ==
    \E t \in Callers :
        /\ Requested(t)
        /\ fetched[t] = ConnBasic
        /\ requests[t][1].auth = <<"Basic", "u3", "p3">>
        /\ requests[t][1].url.host.name = "d3"

\* The attempts of caller t's call that have been through the handler.
HandledCount(t) == IF pc[t] = "L205" THEN Len(outcomes[t]) - 1 ELSE Len(outcomes[t])

\* C18: within a call the attempt counter starts at 1, grows by one only
\* with the sleep that follows a retryable failure short of the limit, and
\* lies in 1..retry_limit whenever a request is issued; every retryable
\* failure is logged with its attempt number, the last one before the
\* retries-exhausted error too; one sleep lies between two consecutive
\* requests and none before the first.
AttemptCounter ==
    \A t \in Callers :
        /\ pc[t] \in {"L197", "L205", "L222"} =>
               /\ frame[t].attempt_num = 1 + Len(sleeps[t])
               /\ frame[t].attempt_num >= 1
               /\ frame[t].attempt_num <= retry_limit
        /\ pc[t] = "L197" =>
               /\ Len(requests[t]) = frame[t].attempt_num - 1
               /\ Len(sleeps[t]) = Len(requests[t])
        /\ pc[t] \in {"L205", "L222"} =>
               /\ Len(requests[t]) = frame[t].attempt_num
               /\ Len(sleeps[t]) = Len(requests[t]) - 1
        /\ pc[t] = "L222" =>
               /\ RetryableFailure(LastOutcome(t))
               /\ frame[t].attempt_num < retry_limit
        /\ (pc[t] = "idle" /\ Requested(t)) =>
               /\ Len(requests[t]) = frame[t].attempt_num
               /\ Len(sleeps[t]) = Len(requests[t]) - 1
        /\ \A i \in 1 .. HandledCount(t) :
               RetryableFailure(outcomes[t][i]) =>
                   /\ i <= Len(logged[t])
                   /\ logged[t][i] = i
        /\ \A j \in 1 .. Len(logged[t]) :
               /\ j <= HandledCount(t)
               /\ RetryableFailure(outcomes[t][j])

AttemptCounterWitness ==
    \E t \in Callers :
        /\ Done(t)
        /\ retry_limit = 3
        /\ frame[t].attempt_num = 3
        /\ IsExhaustedError(result[t])
        /\ logged[t] = <<1, 2, 3>>
        /\ Len(sleeps[t]) = 2

\* The request the call of caller t is to send on every attempt.
ExpectedRequest(t) ==
    [url |-> [host |-> _parse_host(ExpectedHost(fetched[t])),
              endpoint |-> frame[t].endpoint],
     func |-> IF frame[t].method = "GET" THEN "requests.get"
              ELSE IF frame[t].method = "POST" THEN "requests.post"
              ELSE "requests.patch",
     json |-> IF frame[t].method = "GET" THEN "None" ELSE frame[t].json,
     params |-> IF frame[t].method = "GET" THEN frame[t].json ELSE "None",
     auth |-> IF HasToken(fetched[t])
              THEN <<"Bearer", fetched[t].extra_dejson.token>>
              ELSE <<"Basic", fetched[t].login, fetched[t].password>>,
     headers |-> "airflow-version",
     timeout |-> timeout_seconds]

\* C19: the connection is resolved once per call, before the first request,
\* and every attempt of the call goes to the same url with the same method,
\* auth, User-Agent header and timeout, the payload in the query parameters
\* for GET and in the body for POST and PATCH; a change of the stored
\* connection during the retries alters no later attempt.
AttemptsIdentical ==
    \A t \in Callers :
        /\ Requested(t) => fetched[t] \in Connections
        /\ pc[t] \in {"L197", "L205", "L222"} => databricks_conn = fetched[t]
        /\ \A i \in 1 .. Len(requests[t]) : requests[t][i] = ExpectedRequest(t)

AttemptsIdenticalWitness ==
    \E t \in Callers :
        /\ Len(requests[t]) = 3
        /\ frame[t].method = "GET"
        /\ fetched[t] = ConnTokenHost
        /\ store = ConnBasic
        /\ requests[t][3].params = "run_id_1"
        /\ requests[t][3].json = "None"

\* C17: when every request returns or fails, every call ends, by a result
\* or by an error, after at most retry_limit requests and at most
\* retry_limit - 1 sleeps, whatever the transport answers; from no state
\* does the retry loop run forever.
Termination ==
    /\ \A t \in Callers : (pc[t] # "idle") ~> (pc[t] = "idle" /\ result[t].kind # "none")
    /\ [](\A t \in Callers :
            Requested(t) =>
                /\ Len(requests[t]) <= retry_limit
                /\ Len(sleeps[t]) <= retry_limit - 1)

TerminationWitness ==
    \E t \in Callers :
        /\ Done(t)
        /\ retry_limit = 3
        /\ Len(requests[t]) = 3
        /\ Len(sleeps[t]) = 2
        /\ outcomes[t][3] = Raised("Timeout", <<>>)

\* The value a pure function returned, the error it raised.
Returns(r, v) == r.kind = "return" /\ r.value = <<v>>
Raises(r) == r.kind = "raise" /\ r.value = <<>>

\* C12: on a recognized life_cycle_state is_terminal returns true exactly
\* for TERMINATED, SKIPPED and INTERNAL_ERROR; on any other value it raises
\* an error instead of returning false, whatever result_state and
\* state_message are.
TerminalContract ==
    pure.is_terminal # <<>> =>
        LET l == pure.run_state.life_cycle_state
            r == pure.is_terminal[1] IN
        /\ l \in {"TERMINATED", "SKIPPED", "INTERNAL_ERROR"} => Returns(r, TRUE)
        /\ l \in {"PENDING", "RUNNING", "TERMINATING"} => Returns(r, FALSE)
        /\ l \notin {"PENDING", "RUNNING", "TERMINATING", "TERMINATED", "SKIPPED",
                     "INTERNAL_ERROR"} =>
               Raises(r) /\ r.exc = "AirflowException"

TerminalContractWitness ==
    /\ pure.is_terminal # <<>>
    /\ pure.run_state = RunState("QUEUED", <<"SUCCESS">>, "")
    /\ Raises(pure.is_terminal[1])

\* C13: is_successful is true exactly when result_state is "SUCCESS"; on any
\* other value, an absent one included, it is false; it never raises,
\* whatever the life_cycle_state is.
SuccessContract ==
    pure.is_successful # <<>> =>
        /\ ~ Raises(pure.is_successful[1])
        /\ Returns(pure.is_successful[1], pure.run_state.result_state = <<"SUCCESS">>)

SuccessContractWitness ==
    /\ pure.is_successful # <<>>
    /\ pure.run_state = RunState("terminated", <<"SUCCESS">>, "msg")
    /\ Returns(pure.is_successful[1], TRUE)

\* C14: _parse_host(_parse_host(h)) = _parse_host(h) for every host string
\* h; a URL with a hostname yields the hostname without scheme and path; a
\* bare hostname comes back verbatim; the URL built from a host normalized
\* twice (token auth with a host override) is the one a single
\* normalization builds.
NormalizationIdempotent ==
    /\ pure.parsed # <<>> =>
           /\ (pure.host.scheme /\ pure.host.name # "") =>
                  /\ pure.parsed[1].name = pure.host.name
                  /\ ~ pure.parsed[1].scheme
                  /\ ~ pure.parsed[1].path
           /\ ~ pure.host.scheme => pure.parsed[1] = pure.host
    /\ pure.reparsed # <<>> =>
           /\ pure.reparsed = pure.parsed
           /\ pure.url[1].host = pure.parsed[1]
           /\ pure.url[1].endpoint = GET_RUN_ENDPOINT[2]

NormalizationIdempotentWitness ==
    /\ pure.reparsed # <<>>
    /\ pure.host = HostString(TRUE, TRUE, "xx", TRUE, TRUE, TRUE)
    /\ pure.reparsed[1] = Host(FALSE, "xx", FALSE)

\* The endpoint of each facade method.
FixedEndpoint ==
    [run_now |-> <<"POST", "api/2.0/jobs/run-now">>,
     submit_run |-> <<"POST", "api/2.0/jobs/runs/submit">>,
     get_run_page_url |-> <<"GET", "api/2.0/jobs/runs/get">>,
     get_job_id |-> <<"GET", "api/2.0/jobs/runs/get">>,
     get_run_state |-> <<"GET", "api/2.0/jobs/runs/get">>,
     cancel_run |-> <<"POST", "api/2.0/jobs/runs/cancel">>,
     restart_cluster |-> <<"POST", "api/2.0/clusters/restart">>,
     start_cluster |-> <<"POST", "api/2.0/clusters/start">>,
     terminate_cluster |-> <<"POST", "api/2.0/clusters/delete">>,
     install |-> <<"POST", "api/2.0/libraries/install">>,
     uninstall |-> <<"POST", "api/2.0/libraries/uninstall">>]

\* Every request of caller t goes to the endpoint of facade method name.
RequestsTo(t, name) ==
    \A i \in 1 .. Len(requests[t]) :
        /\ requests[t][i].url.endpoint = FixedEndpoint[name][2]
        /\ requests[t][i].func =
               (IF FixedEndpoint[name][1] = "GET" THEN "requests.get" ELSE "requests.post")

\* C15: a facade method performs one _do_api_call, with its fixed endpoint,
\* and no retry of its own: one invocation issues at most retry_limit
\* requests, and a failure of _do_api_call reaches the caller unchanged.
FacadeFunnel ==
    \A t \in Callers :
        /\ facade[t] # NoFacade =>
               /\ facade[t].name \in DOMAIN FixedEndpoint
               /\ facade[t].calls = 1
               /\ frame[t].method = FixedEndpoint[facade[t].name][1]
               /\ frame[t].endpoint = FixedEndpoint[facade[t].name][2]
               /\ RequestsTo(t, facade[t].name)
               /\ Len(requests[t]) <= retry_limit
        /\ returned[t] # NoReturned =>
               /\ returned[t].calls = 1
               /\ returned[t].requests = Len(requests[t])
               /\ returned[t].requests <= retry_limit
               /\ RequestsTo(t, returned[t].name)
               /\ result[t].kind = "raise" => returned[t].result = result[t]

FacadeFunnelWitness ==
    \E t \in Callers :
        /\ returned[t].name = "submit_run"
        /\ retry_limit = 3
        /\ returned[t].requests = 3
        /\ returned[t].result = ExhaustedError(3)
        /\ requests[t][3].url.endpoint = "api/2.0/jobs/runs/submit"

\* get_run_state has returned a RunState to caller t.
ReturnedRunState(t) ==
    /\ returned[t].name = "get_run_state"
    /\ returned[t].result.kind = "return"

\* C16: get_run_state makes one GET runs/get call for the run_id and returns
\* a new RunState: life_cycle_state and state_message are those of the
\* response's state object, result_state is the one of the response or
\* absent; the RunState of a later query is another object than every
\* earlier one; two are equal exactly when the three fields match; a query
\* changes no RunState made before.
RunStateFresh ==
    /\ [](\A t \in Callers :
            ReturnedRunState(t) =>
                LET state == LastOutcome(t).response[1].content.id.state[1]
                    value == returned[t].result.value[1] IN
                /\ returned[t].calls = 1
                /\ \A i \in 1 .. Len(requests[t]) :
                       /\ requests[t][i].func = "requests.get"
                       /\ requests[t][i].url.endpoint = "api/2.0/jobs/runs/get"
                       /\ requests[t][i].params = frame[t].json
                /\ value.type = "RunState"
                /\ value.ref \in 1 .. Len(heap)
                /\ heap[value.ref].life_cycle_state = state.life_cycle_state[1]
                /\ heap[value.ref].state_message = state.state_message[1]
                /\ heap[value.ref].result_state = state.result_state)
    /\ [](\A i, j \in 1 .. Len(heap) :
            RunStateEq(heap[i], heap[j]) <=>
                /\ heap[i].life_cycle_state = heap[j].life_cycle_state
                /\ heap[i].result_state = heap[j].result_state
                /\ heap[i].state_message = heap[j].state_message)
    /\ [][/\ \A i \in 1 .. Len(heap) : Len(heap') >= i /\ heap'[i] = heap[i]
          /\ \A t \in Callers :
                 (ReturnedRunState(t)' /\ ~ ReturnedRunState(t)) =>
                     returned'[t].result.value[1].ref \notin 1 .. Len(heap)]_vars

RunStateFreshWitness ==
    \E t \in Callers :
        /\ ReturnedRunState(t)
        /\ Len(heap) = 2
        /\ returned[t].result.value[1].ref = 2
        /\ RunStateEq(heap[1], heap[2])
        /\ heap[2] = RunState("RUNNING", <<>>, "")

=============================================================================
